---- MODULE Spec2Model ----
(***************************************************************************)
(* Model of the lp_program escrow marketplace (programs/lp-2/src/lib.rs). *)
(*                                                                         *)
(* Every instruction is one atomic action: the ledger runs a transaction   *)
(* to completion or reverts all of it.  An instruction is modelled as the  *)
(* account validation generated from its #[derive(Accounts)] struct (init  *)
(* fields first, then the constraints in field order), followed by the     *)
(* handler's require! chain, followed by the handler's writes and lamport  *)
(* transfers.  The outcome of the validation is an error code computed by  *)
(* a ...Result operator; the action applies the effects only on "Ok".      *)
(*                                                                         *)
(* Account addresses: a JobPost PDA is the pair <<client, title>>, an      *)
(* Application PDA the pair <<job key, freelancer>>, the escrow PDA of a   *)
(* job is named by the job's key.  Where an instruction takes an account   *)
(* it does not constrain (the `freelancer` of approve_submission, the      *)
(* `user` of get_user_stats) the argument is an address: a wallet or an    *)
(* escrow PDA; a UserStats PDA is named by the address it is seeded with.  *)
(* Rent paid for the JobPost, Application and UserStats records is not     *)
(* tracked (record-storage fees); the escrow's lamports are.               *)
(*                                                                         *)
(* The clock is an input of the two instructions that read it, and the     *)
(* outcome variable keeps only whether the last instruction returned Ok;   *)
(* the error code of a call is the value of its ...Result operator.        *)
(***************************************************************************)
EXTENDS Integers, Sequences, FiniteSets, TLC

\* ---------------------------------------------------------------- bounds
MaxAmount == 2
InitLamports == 3

\* ------------------------------------------------------------- constants
SecondsPerMonth == 2592000
\* Rent::get()?.minimum_balance(0), scaled down to sit inside 1..MaxAmount
RentExemptMin == 2

\* ---------------------------------------------------------------- inputs
Users == {"u1", "u2"}
Titles == {"t1"}
TitleInputs == Titles \cup {""}
\* Clock::get()?.unix_timestamp as read by initialize_job_post and by
\* approve_submission
Nows == {0, 2 * SecondsPerMonth}
ReleaseNows == {2 * SecondsPerMonth}
\* <<title, description, amount, start_date, end_date>> of initialize_job_post:
\* the well-formed posts, and one ill-formed post per require!
PostInputs ==
  {<<"t1", "d", amount, SecondsPerMonth, SecondsPerMonth>> : amount \in 1..MaxAmount}
  \cup {<<"", "d", 1, SecondsPerMonth, SecondsPerMonth>>,
        <<"t1", "", 1, SecondsPerMonth, SecondsPerMonth>>,
        <<"t1", "d", 0, SecondsPerMonth, SecondsPerMonth>>,
        <<"t1", "d", 1, SecondsPerMonth, 0>>}
\* <<resume_link, expected_end_date>> of apply_to_job
ApplyInputs == {<<"r", 0>>, <<"", 0>>, <<"r", -1>>}
\* <<submission_link, narration>> of submit_work
SubmitInputs == {<<"s1", "n">>, <<"s2", "n">>, <<"", "n">>, <<"s1", "">>}
Reviews == {"rv"}

NoKey == "none"
AllJobKeys == Users \X TitleInputs
JobKeys == Users \X Titles
AppKeys == JobKeys \X Users

\* Addresses of the accounts that hold lamports: the wallet of a user and
\* the escrow PDA of a job, as <<kind, user, title>>.
Wallet(u) == <<"wallet", u, "">>
EscrowAddr(j) == <<"escrow", j[1], j[2]>>
IsWallet(addr) == addr[1] = "wallet"
\* The user of a wallet address, the job of an escrow address.
UserOf(addr) == addr[2]
JobOf(addr) == <<addr[2], addr[3]>>
Addresses == {Wallet(u) : u \in Users} \cup {EscrowAddr(j) : j \in AllJobKeys}
\* The accounts passed as the unconstrained `freelancer` of approve_submission.
Payees == {Wallet(u) : u \in Users} \cup {EscrowAddr(j) : j \in JobKeys}

Max(a, b) == IF a >= b THEN a ELSE b

\* What the caller sees of a Result<()>.
Outcome(r) == IF r = "Ok" THEN "Ok" ELSE "Err"

\* ---------------------------------------------------------------- records
EmptyJobPost ==
  [initialized |-> FALSE, client |-> NoKey, title |-> "", description |-> "",
   amount |-> 0, is_filled |-> FALSE, cancelled |-> FALSE,
   start_date |-> 0, end_date |-> 0, freelancer |-> NoKey]

EmptyApplication ==
  [initialized |-> FALSE, applicant |-> NoKey, job_post |-> <<NoKey, "">>,
   resume_link |-> "", submission_link |-> "", narration |-> "",
   client_review |-> "", approved |-> FALSE, submitted |-> FALSE,
   completed |-> FALSE, rejected |-> FALSE, expected_end_date |-> 0]

EmptyUserStats ==
  [initialized |-> FALSE, total_gigs_posted |-> 0, total_revenue_earned |-> 0,
   monthly_gigs |-> 0, monthly_revenue |-> 0, last_updated_month |-> 0]

VARIABLES
  job_posts,     \* [AllJobKeys -> JobPost]        the JobPost accounts
  applications,  \* [AppKeys -> Application]       the Application accounts
  user_stats,    \* [Addresses -> UserStats]       the UserStats accounts
  escrows,       \* [AllJobKeys -> Nat]            lamports of each escrow PDA
  lamports,      \* [Users -> Nat]                 lamports of each wallet
  outcome,       \* "Ok" or "Err": what the last instruction returned
  vault_out      \* history: the transfers out of each escrow,
                 \* <<"release" or "refund", payee, amount>>

vars == <<job_posts, applications, user_stats, escrows, lamports, outcome,
          vault_out>>

ledger == <<job_posts, applications, user_stats, escrows, lamports>>

Init ==
  /\ job_posts = [j \in AllJobKeys |-> EmptyJobPost]
  /\ applications = [a \in AppKeys |-> EmptyApplication]
  /\ user_stats = [x \in Addresses |-> EmptyUserStats]
  /\ escrows = [j \in AllJobKeys |-> 0]
  /\ lamports = [u \in Users |-> InitLamports]
  /\ outcome = "Ok"
  /\ vault_out = [j \in JobKeys |-> <<>>]

\* i64 division and remainder: both truncate toward zero (b > 0 here).
TruncDiv(a, b) == IF a >= 0 THEN a \div b ELSE -((-a) \div b)
TruncRem(a, b) == a - (b * TruncDiv(a, b))

\* ((Clock::get()?.unix_timestamp / 2_592_000) % 12 + 1) as u8: the cast
\* keeps the low eight bits, so a month of 0 or below wraps.
MonthOf(now) == (TruncRem(TruncDiv(now, SecondsPerMonth), 12) + 1) % 256

\* The rolling monthly reset shared by both statistics updates.
RollMonth(s, now) ==
  IF s.last_updated_month # MonthOf(now)
  THEN [s EXCEPT !.monthly_gigs = 0, !.monthly_revenue = 0,
                 !.last_updated_month = MonthOf(now)]
  ELSE s

\* ------------------------------------------------------ initialize_job_post
\* An escrow funded one lamport short of the amount.
EscrowFunding_Short(amount) == amount - 1

EscrowFunding(amount) == Max(RentExemptMin, amount) + amount

InitializeJobPostResult(client, title, description, amount, start_date, end_date, escrow, now) ==
  LET j == <<client, title>> IN
  IF job_posts[j].initialized THEN "AccountAlreadyInUse"
  ELSE IF escrow # j THEN "ConstraintSeeds"
  ELSE IF title = "" THEN "InvalidInput"
  ELSE IF description = "" THEN "InvalidInput"
  ELSE IF ~(amount > 0) THEN "InvalidAmount"
  ELSE IF ~(start_date <= end_date) THEN "InvalidDates"
  ELSE IF ~(start_date >= now) THEN "InvalidDates"
  ELSE IF escrows[escrow] > 0 THEN "AccountAlreadyInUse"
  ELSE IF lamports[client] < EscrowFunding(amount) THEN "InsufficientFunds"
  ELSE "Ok"

initialize_job_post(client, title, description, amount, start_date, end_date, escrow, now) ==
  LET j == <<client, title>>
      r == InitializeJobPostResult(client, title, description, amount,
                                   start_date, end_date, escrow, now)
      s == RollMonth([user_stats[Wallet(client)] EXCEPT !.initialized = TRUE], now)
  IN
  /\ outcome' = Outcome(r)
  /\ IF r = "Ok"
     THEN /\ job_posts' = [job_posts EXCEPT ![j] =
                 [initialized |-> TRUE, client |-> client, title |-> title,
                  description |-> description, amount |-> amount,
                  is_filled |-> FALSE, cancelled |-> FALSE,
                  start_date |-> start_date, end_date |-> end_date,
                  freelancer |-> NoKey]]
          /\ escrows' = [escrows EXCEPT ![j] = @ + EscrowFunding(amount)]
          /\ lamports' = [lamports EXCEPT ![client] = @ - EscrowFunding(amount)]
          /\ user_stats' = [user_stats EXCEPT ![Wallet(client)] =
                 [s EXCEPT !.total_gigs_posted = @ + 1, !.monthly_gigs = @ + 1]]
          /\ UNCHANGED <<applications, vault_out>>
     ELSE UNCHANGED <<ledger, vault_out>>

\* ------------------------------------------------------------- apply_to_job
\* apply_to_job with the handler's checks ahead of the account creation.
ApplyToJobResult_DomainFirst(freelancer, j, resume_link, expected_end_date) ==
  IF ~job_posts[j].initialized THEN "AccountNotInitialized"
  ELSE IF resume_link = "" THEN "InvalidInput"
  ELSE IF ~(expected_end_date >= 0) THEN "InvalidDates"
  ELSE IF job_posts[j].is_filled THEN "JobAlreadyFilled"
  ELSE IF job_posts[j].cancelled THEN "JobCancelled"
  ELSE IF applications[<<j, freelancer>>].initialized THEN "AccountAlreadyInUse"
  ELSE "Ok"

ApplyToJobResult(freelancer, j, resume_link, expected_end_date) ==
  IF ~job_posts[j].initialized THEN "AccountNotInitialized"
  ELSE IF applications[<<j, freelancer>>].initialized THEN "AccountAlreadyInUse"
  ELSE IF resume_link = "" THEN "InvalidInput"
  ELSE IF ~(expected_end_date >= 0) THEN "InvalidDates"
  ELSE IF job_posts[j].is_filled THEN "JobAlreadyFilled"
  ELSE IF job_posts[j].cancelled THEN "JobCancelled"
  ELSE "Ok"

apply_to_job(freelancer, j, resume_link, expected_end_date) ==
  LET r == ApplyToJobResult(freelancer, j, resume_link, expected_end_date) IN
  /\ outcome' = Outcome(r)
  /\ IF r = "Ok"
     THEN /\ applications' = [applications EXCEPT ![<<j, freelancer>>] =
                 [initialized |-> TRUE, applicant |-> freelancer, job_post |-> j,
                  resume_link |-> resume_link, submission_link |-> "",
                  narration |-> "", client_review |-> "", approved |-> FALSE,
                  submitted |-> FALSE, completed |-> FALSE, rejected |-> FALSE,
                  expected_end_date |-> expected_end_date]]
          /\ UNCHANGED <<job_posts, user_stats, escrows, lamports, vault_out>>
     ELSE UNCHANGED <<ledger, vault_out>>

\* ------------------------------------------------------ approve_application
\* approve_application without the is_filled guard.
ApproveApplicationResult_NoFilledGuard(client, j, a) ==
  IF ~applications[a].initialized THEN "AccountNotInitialized"
  ELSE IF ~job_posts[j].initialized THEN "AccountNotInitialized"
  ELSE IF applications[a].job_post # j THEN "InvalidAccount"
  ELSE IF job_posts[j].client # client THEN "Unauthorized"
  ELSE IF job_posts[j].cancelled THEN "JobCancelled"
  ELSE IF applications[a].approved THEN "ApplicationAlreadyApproved"
  ELSE "Ok"

\* approve_application with the approved guard ahead of the job's guards.
ApproveApplicationResult_ApprovedFirst(client, j, a) ==
  IF ~applications[a].initialized THEN "AccountNotInitialized"
  ELSE IF ~job_posts[j].initialized THEN "AccountNotInitialized"
  ELSE IF applications[a].job_post # j THEN "InvalidAccount"
  ELSE IF job_posts[j].client # client THEN "Unauthorized"
  ELSE IF applications[a].approved THEN "ApplicationAlreadyApproved"
  ELSE IF job_posts[j].is_filled THEN "JobAlreadyFilled"
  ELSE IF job_posts[j].cancelled THEN "JobCancelled"
  ELSE "Ok"

ApproveApplicationResult(client, j, a) ==
  IF ~applications[a].initialized THEN "AccountNotInitialized"
  ELSE IF ~job_posts[j].initialized THEN "AccountNotInitialized"
  ELSE IF applications[a].job_post # j THEN "InvalidAccount"
  ELSE IF job_posts[j].client # client THEN "Unauthorized"
  ELSE IF job_posts[j].is_filled THEN "JobAlreadyFilled"
  ELSE IF job_posts[j].cancelled THEN "JobCancelled"
  ELSE IF applications[a].approved THEN "ApplicationAlreadyApproved"
  ELSE "Ok"

approve_application(client, j, a) ==
  LET r == ApproveApplicationResult(client, j, a) IN
  /\ outcome' = Outcome(r)
  /\ IF r = "Ok"
     THEN /\ applications' = [applications EXCEPT ![a].approved = TRUE]
          /\ job_posts' = [job_posts EXCEPT ![j].is_filled = TRUE,
                                            ![j].freelancer = applications[a].applicant]
          /\ UNCHANGED <<user_stats, escrows, lamports, vault_out>>
     ELSE UNCHANGED <<ledger, vault_out>>

\* -------------------------------------------------------------- submit_work
\* submit_work refusing an application whose work was rejected.
SubmitWorkResult_RejectedGuard(freelancer, j, a, submission_link, narration) ==
  IF ~applications[a].initialized THEN "AccountNotInitialized"
  ELSE IF ~job_posts[j].initialized THEN "AccountNotInitialized"
  ELSE IF applications[a].applicant # freelancer THEN "Unauthorized"
  ELSE IF applications[a].job_post # j THEN "InvalidAccount"
  ELSE IF submission_link = "" THEN "InvalidInput"
  ELSE IF narration = "" THEN "InvalidInput"
  ELSE IF ~applications[a].approved THEN "ApplicationNotApproved"
  ELSE IF applications[a].completed THEN "WorkAlreadyApproved"
  ELSE IF applications[a].rejected THEN "WorkAlreadyRejected"
  ELSE "Ok"

\* submit_work refusing an application that already holds a submission.
SubmitWorkResult_SubmittedGuard(freelancer, j, a, submission_link, narration) ==
  IF ~applications[a].initialized THEN "AccountNotInitialized"
  ELSE IF ~job_posts[j].initialized THEN "AccountNotInitialized"
  ELSE IF applications[a].applicant # freelancer THEN "Unauthorized"
  ELSE IF applications[a].job_post # j THEN "InvalidAccount"
  ELSE IF submission_link = "" THEN "InvalidInput"
  ELSE IF narration = "" THEN "InvalidInput"
  ELSE IF ~applications[a].approved THEN "ApplicationNotApproved"
  ELSE IF applications[a].completed THEN "WorkAlreadyApproved"
  ELSE IF applications[a].submitted THEN "WorkAlreadySubmitted"
  ELSE "Ok"

SubmitWorkResult(freelancer, j, a, submission_link, narration) ==
  IF ~applications[a].initialized THEN "AccountNotInitialized"
  ELSE IF ~job_posts[j].initialized THEN "AccountNotInitialized"
  ELSE IF applications[a].applicant # freelancer THEN "Unauthorized"
  ELSE IF applications[a].job_post # j THEN "InvalidAccount"
  ELSE IF submission_link = "" THEN "InvalidInput"
  ELSE IF narration = "" THEN "InvalidInput"
  ELSE IF ~applications[a].approved THEN "ApplicationNotApproved"
  ELSE IF applications[a].completed THEN "WorkAlreadyApproved"
  ELSE "Ok"

submit_work(freelancer, j, a, submission_link, narration) ==
  LET r == SubmitWorkResult(freelancer, j, a, submission_link, narration) IN
  /\ outcome' = Outcome(r)
  /\ IF r = "Ok"
     THEN /\ applications' = [applications EXCEPT
                 ![a].submission_link = submission_link,
                 ![a].narration = narration,
                 ![a].submitted = TRUE,
                 ![a].rejected = FALSE]
          /\ UNCHANGED <<job_posts, user_stats, escrows, lamports, vault_out>>
     ELSE UNCHANGED <<ledger, vault_out>>

\* ------------------------------------------------------- approve_submission
\* approve_submission without the completed guard.
ApproveSubmissionResult_NoCompletedGuard(client, j, a, escrow, freelancer) ==
  IF ~applications[a].initialized THEN "AccountNotInitialized"
  ELSE IF ~job_posts[j].initialized THEN "AccountNotInitialized"
  ELSE IF applications[a].job_post # j THEN "InvalidAccount"
  ELSE IF job_posts[j].client # client THEN "Unauthorized"
  ELSE IF escrow # j THEN "ConstraintSeeds"
  ELSE IF ~applications[a].submitted THEN "WorkNotCompleted"
  ELSE IF job_posts[j].freelancer # applications[a].applicant THEN "Unauthorized"
  ELSE IF ~(escrows[escrow] >= job_posts[j].amount) THEN "InsufficientEscrowBalance"
  ELSE "Ok"

\* approve_submission without the client checks.
ApproveSubmissionResult_NoClientCheck(client, j, a, escrow, freelancer) ==
  IF ~applications[a].initialized THEN "AccountNotInitialized"
  ELSE IF ~job_posts[j].initialized THEN "AccountNotInitialized"
  ELSE IF applications[a].job_post # j THEN "InvalidAccount"
  ELSE IF escrow # j THEN "ConstraintSeeds"
  ELSE IF ~applications[a].submitted THEN "WorkNotCompleted"
  ELSE IF applications[a].completed THEN "WorkAlreadyApproved"
  ELSE IF job_posts[j].freelancer # applications[a].applicant THEN "Unauthorized"
  ELSE IF ~(escrows[escrow] >= job_posts[j].amount) THEN "InsufficientEscrowBalance"
  ELSE "Ok"

ApproveSubmissionResult(client, j, a, escrow, freelancer) ==
  IF ~applications[a].initialized THEN "AccountNotInitialized"
  ELSE IF ~job_posts[j].initialized THEN "AccountNotInitialized"
  ELSE IF applications[a].job_post # j THEN "InvalidAccount"
  ELSE IF job_posts[j].client # client THEN "Unauthorized"
  ELSE IF escrow # j THEN "ConstraintSeeds"
  ELSE IF ~applications[a].submitted THEN "WorkNotCompleted"
  ELSE IF applications[a].completed THEN "WorkAlreadyApproved"
  ELSE IF job_posts[j].freelancer # applications[a].applicant THEN "Unauthorized"
  ELSE IF ~(escrows[escrow] >= job_posts[j].amount) THEN "InsufficientEscrowBalance"
  ELSE "Ok"

\* The account credited by the release: ctx.accounts.freelancer.
ReleasePayee(a, freelancer) == freelancer

approve_submission(client, j, a, escrow, freelancer, client_review, now) ==
  LET r == ApproveSubmissionResult(client, j, a, escrow, freelancer)
      amount == job_posts[j].amount
      payee == ReleasePayee(a, freelancer)
      s == RollMonth([user_stats[freelancer] EXCEPT !.initialized = TRUE], now)
      debited == [escrows EXCEPT ![escrow] = @ - amount]
  IN
  /\ outcome' = Outcome(r)
  /\ IF r = "Ok"
     THEN /\ applications' = [applications EXCEPT
                 ![a].client_review = client_review,
                 ![a].completed = TRUE]
          /\ escrows' = IF IsWallet(payee) THEN debited
                        ELSE [debited EXCEPT ![JobOf(payee)] = @ + amount]
          /\ lamports' = IF IsWallet(payee)
                         THEN [lamports EXCEPT ![UserOf(payee)] = @ + amount]
                         ELSE lamports
          /\ user_stats' = [user_stats EXCEPT ![freelancer] =
                 [s EXCEPT !.total_revenue_earned = @ + amount,
                           !.monthly_revenue = @ + amount,
                           !.monthly_gigs = @ + 1]]
          /\ vault_out' = [vault_out EXCEPT ![escrow] = Append(@, <<"release", payee, amount>>)]
          /\ UNCHANGED job_posts
     ELSE UNCHANGED <<ledger, vault_out>>

\* -------------------------------------------------------- reject_submission
\* reject_submission without the completed guard.
RejectSubmissionResult_NoCompletedGuard(client, j, a) ==
  IF ~applications[a].initialized THEN "AccountNotInitialized"
  ELSE IF ~job_posts[j].initialized THEN "AccountNotInitialized"
  ELSE IF applications[a].job_post # j THEN "InvalidAccount"
  ELSE IF job_posts[j].client # client THEN "Unauthorized"
  ELSE IF job_posts[j].freelancer # applications[a].applicant THEN "Unauthorized"
  ELSE IF ~applications[a].submitted THEN "WorkNotCompleted"
  ELSE "Ok"

\* reject_submission without the submitted guard.
RejectSubmissionResult_NoSubmittedGuard(client, j, a) ==
  IF ~applications[a].initialized THEN "AccountNotInitialized"
  ELSE IF ~job_posts[j].initialized THEN "AccountNotInitialized"
  ELSE IF applications[a].job_post # j THEN "InvalidAccount"
  ELSE IF job_posts[j].client # client THEN "Unauthorized"
  ELSE IF job_posts[j].freelancer # applications[a].applicant THEN "Unauthorized"
  ELSE IF applications[a].completed THEN "WorkAlreadyApproved"
  ELSE "Ok"

RejectSubmissionResult(client, j, a) ==
  IF ~applications[a].initialized THEN "AccountNotInitialized"
  ELSE IF ~job_posts[j].initialized THEN "AccountNotInitialized"
  ELSE IF applications[a].job_post # j THEN "InvalidAccount"
  ELSE IF job_posts[j].client # client THEN "Unauthorized"
  ELSE IF job_posts[j].freelancer # applications[a].applicant THEN "Unauthorized"
  ELSE IF applications[a].completed THEN "WorkAlreadyApproved"
  ELSE IF ~applications[a].submitted THEN "WorkNotCompleted"
  ELSE "Ok"

reject_submission(client, j, a, client_review) ==
  LET r == RejectSubmissionResult(client, j, a) IN
  /\ outcome' = Outcome(r)
  /\ IF r = "Ok"
     THEN /\ applications' = [applications EXCEPT
                 ![a].client_review = client_review,
                 ![a].rejected = TRUE,
                 ![a].submitted = FALSE]
          /\ UNCHANGED <<job_posts, user_stats, escrows, lamports, vault_out>>
     ELSE UNCHANGED <<ledger, vault_out>>

\* --------------------------------------------------------------- cancel_job
\* cancel_job without the cancelled guard.
CancelJobResult_NoCancelledGuard(client, j, escrow) ==
  IF ~job_posts[j].initialized THEN "AccountNotInitialized"
  ELSE IF job_posts[j].client # client THEN "Unauthorized"
  ELSE IF escrow # j THEN "ConstraintSeeds"
  ELSE IF job_posts[j].is_filled THEN "JobAlreadyFilled"
  ELSE IF escrows[escrow] < job_posts[j].amount THEN "InsufficientFunds"
  ELSE "Ok"

\* cancel_job without the is_filled guard.
CancelJobResult_NoFilledGuard(client, j, escrow) ==
  IF ~job_posts[j].initialized THEN "AccountNotInitialized"
  ELSE IF job_posts[j].client # client THEN "Unauthorized"
  ELSE IF escrow # j THEN "ConstraintSeeds"
  ELSE IF job_posts[j].cancelled THEN "JobAlreadyCancelled"
  ELSE IF escrows[escrow] < job_posts[j].amount THEN "InsufficientFunds"
  ELSE "Ok"

CancelJobResult(client, j, escrow) ==
  IF ~job_posts[j].initialized THEN "AccountNotInitialized"
  ELSE IF job_posts[j].client # client THEN "Unauthorized"
  ELSE IF escrow # j THEN "ConstraintSeeds"
  ELSE IF job_posts[j].is_filled THEN "JobAlreadyFilled"
  ELSE IF job_posts[j].cancelled THEN "JobAlreadyCancelled"
  ELSE IF escrows[escrow] < job_posts[j].amount THEN "InsufficientFunds"
  ELSE "Ok"

\* cancel_job crediting the client without debiting the escrow.
cancel_job_NoDebit(client, j, escrow) ==
  LET r == CancelJobResult(client, j, escrow)
      amount == job_posts[j].amount
  IN
  /\ outcome' = Outcome(r)
  /\ IF r = "Ok"
     THEN /\ job_posts' = [job_posts EXCEPT ![j].cancelled = TRUE]
          /\ lamports' = [lamports EXCEPT ![client] = @ + amount]
          /\ vault_out' = [vault_out EXCEPT ![escrow] = Append(@, <<"refund", Wallet(client), amount>>)]
          /\ UNCHANGED <<applications, user_stats, escrows>>
     ELSE UNCHANGED <<ledger, vault_out>>

cancel_job(client, j, escrow) ==
  LET r == CancelJobResult(client, j, escrow)
      amount == job_posts[j].amount
  IN
  /\ outcome' = Outcome(r)
  /\ IF r = "Ok"
     THEN /\ job_posts' = [job_posts EXCEPT ![j].cancelled = TRUE]
          /\ escrows' = [escrows EXCEPT ![escrow] = @ - amount]
          /\ lamports' = [lamports EXCEPT ![client] = @ + amount]
          /\ vault_out' = [vault_out EXCEPT ![escrow] = Append(@, <<"refund", Wallet(client), amount>>)]
          /\ UNCHANGED <<applications, user_stats>>
     ELSE UNCHANGED <<ledger, vault_out>>

\* ----------------------------------------------------------- get_user_stats
\* `user` is an address: the account is unchecked.
GetUserStatsResult(user) ==
  IF ~user_stats[user].initialized THEN "AccountNotInitialized" ELSE "Ok"

get_user_stats(user) ==
  /\ outcome' = Outcome(GetUserStatsResult(user))
  /\ UNCHANGED <<ledger, vault_out>>

\* --------------------------------------------------------------------- Next
\* <<client, post input, escrow>> of initialize_job_post: every post with the
\* escrow PDA of its job, and a well-formed post with another escrow.
PostCalls ==
  {<<client, p, <<client, p[1]>>>> : client \in Users, p \in PostInputs}
  \cup {<<client, <<"t1", "d", 1, SecondsPerMonth, SecondsPerMonth>>, e>> :
           client \in Users, e \in JobKeys}
\* <<job_post, application, submission_link, narration>> of submit_work: an
\* application with its own job and every input, and with another job.
SubmitCalls ==
  {<<a[1], a, p[1], p[2]>> : a \in AppKeys, p \in SubmitInputs}
  \cup {<<j, a, "s1", "n">> : j \in JobKeys, a \in AppKeys}
\* <<job_post, application, escrow, freelancer>> of approve_submission: an
\* application with its own job and that job's escrow, paid to any address;
\* and, paid to the applicant, with another job or with another escrow.
ReleaseCalls ==
  {<<a[1], a, a[1], payee>> : a \in AppKeys, payee \in Payees}
  \cup {<<j, a, j, Wallet(a[2])>> : j \in JobKeys, a \in AppKeys}
  \cup {<<a[1], a, e, Wallet(a[2])>> : a \in AppKeys, e \in JobKeys}

Next ==
  \/ \E c \in PostCalls, now \in Nows :
       initialize_job_post(c[1], c[2][1], c[2][2], c[2][3], c[2][4], c[2][5],
                           c[3], now)
  \/ \E freelancer \in Users, j \in JobKeys, p \in ApplyInputs :
       apply_to_job(freelancer, j, p[1], p[2])
  \/ \E client \in Users, j \in JobKeys, a \in AppKeys :
       approve_application(client, j, a)
  \/ \E freelancer \in Users, c \in SubmitCalls :
       submit_work(freelancer, c[1], c[2], c[3], c[4])
  \/ \E client \in Users, c \in ReleaseCalls,
        client_review \in Reviews, now \in ReleaseNows :
       approve_submission(client, c[1], c[2], c[3], c[4], client_review, now)
  \/ \E client \in Users, j \in JobKeys, a \in AppKeys, client_review \in Reviews :
       reject_submission(client, j, a, client_review)
  \/ \E client \in Users, j \in JobKeys, escrow \in JobKeys :
       cancel_job(client, j, escrow)
  \/ \E user \in Payees : get_user_stats(user)

Spec == Init /\ [][Next]_vars

\* ------------------------------------------------------------------ helpers
Initialized(a) == applications[a].initialized
ClientOf(j) == job_posts[j].client
\* The applications whose job_post is j.
ApplicationsOf(j) == {a \in AppKeys : Initialized(a) /\ applications[a].job_post = j}
\* A transition in which application a goes from not completed to completed:
\* a successful approve_submission on a.
Completes(a) == ~applications[a].completed /\ applications'[a].completed
\* A transition that creates job j: a successful initialize_job_post.
Posts(j) == ~job_posts[j].initialized /\ job_posts'[j].initialized
\* A transition that cancels job j: a successful cancel_job.
Cancels(j) == ~job_posts[j].cancelled /\ job_posts'[j].cancelled
\* Application a was rejected and then resubmitted, and is not yet reviewed
\* again (client_review is written by the two reviews only).
Resubmitted(a) ==
  /\ Initialized(a)
  /\ applications[a].submitted
  /\ ~applications[a].completed
  /\ applications[a].client_review # ""
\* The lamports ever moved out of job j's escrow.
RECURSIVE SumOut(_)
SumOut(seq) == IF seq = <<>> THEN 0 ELSE seq[1][3] + SumOut(Tail(seq))
\* The sum of f over the set S.
RECURSIVE SumOver(_, _)
SumOver(f, S) ==
  IF S = {} THEN 0
  ELSE LET x == CHOOSE y \in S : TRUE IN f[x] + SumOver(f, S \ {x})
\* The lamports of the transfers in seq that were paid to address addr.
RECURSIVE SumTo(_, _)
SumTo(seq, addr) ==
  IF seq = <<>> THEN 0
  ELSE (IF seq[1][2] = addr THEN seq[1][3] ELSE 0) + SumTo(Tail(seq), addr)
\* The lamports ever paid into job j's escrow out of an escrow.
SumIn(j) == SumOver([k \in JobKeys |-> SumTo(vault_out[k], EscrowAddr(j))], JobKeys)

\* ----------------------------------------------------------------------- C1
\* C1: whenever approve_submission succeeds on an application, exactly
\* job.amount leaves the job's escrow and is credited to the application's
\* applicant, whatever account was passed as `freelancer`; nobody else's
\* balance grows.
C1_ReleaseGoesToApplicant ==
  [][\A a \in AppKeys : Completes(a) =>
        LET j == applications[a].job_post
            f == applications[a].applicant
        IN /\ escrows'[j] = escrows[j] - job_posts[j].amount
           /\ lamports'[f] = lamports[f] + job_posts[j].amount
           /\ \A u \in Users \ {f} : lamports'[u] = lamports[u]]_vars

\* ----------------------------------------------------------------------- C2
\* C2: after every successful initialize_job_post the escrow holds exactly
\* `amount` and the client has paid exactly `amount`.
C2_PostLocksExactlyAmount ==
  [][\A j \in JobKeys : Posts(j) =>
        /\ escrows'[j] = job_posts'[j].amount
        /\ lamports'[j[1]] = lamports[j[1]] - job_posts'[j].amount]_vars

\* ----------------------------------------------------------------------- C3
\* C3: after post, approve_application, submit_work, reject_submission and a
\* second submit_work, approve_submission by the client succeeds, pays the
\* escrow's entire balance to the freelancer and leaves the escrow at zero,
\* the application completed and not rejected.
C3_ResubmissionPaysOutVault ==
  /\ [](\A a \in AppKeys : Resubmitted(a) =>
          LET j == applications[a].job_post IN
          ApproveSubmissionResult(ClientOf(j), j, a, j,
                                  Wallet(applications[a].applicant)) = "Ok")
  /\ [][\A a \in AppKeys : (Resubmitted(a) /\ Completes(a)) =>
          LET j == applications[a].job_post
              f == applications[a].applicant
          IN /\ lamports'[f] = lamports[f] + escrows[j]
             /\ escrows'[j] = 0
             /\ applications'[a].completed
             /\ ~applications'[a].rejected]_vars

\* ----------------------------------------------------------------------- C4
\* C4: on a job that is neither filled nor cancelled, cancel_job by the client
\* succeeds, sets cancelled, refunds exactly `amount` to the client and leaves
\* the escrow at zero.
C4_CancelRefundsAndEmptiesVault ==
  /\ [](\A j \in JobKeys :
          (job_posts[j].initialized /\ ~job_posts[j].is_filled /\ ~job_posts[j].cancelled)
            => CancelJobResult(ClientOf(j), j, j) = "Ok")
  /\ [][\A j \in JobKeys : Cancels(j) =>
          /\ job_posts'[j].cancelled
          /\ lamports'[ClientOf(j)] = lamports[ClientOf(j)] + job_posts[j].amount
          /\ escrows'[j] = 0]_vars

\* ----------------------------------------------------------------------- C5
\* C5: for each job at most one transfer ever leaves its escrow (one release
\* or one refund, never both, never twice), the total debited is at most
\* job.amount, and the escrow's balance is its funding, plus what releases
\* have paid into it, less what was debited.
C5_AtMostOneOutboundTransfer ==
  \A j \in JobKeys :
    /\ Len(vault_out[j]) <= 1
    /\ SumOut(vault_out[j]) <= job_posts[j].amount
    /\ job_posts[j].initialized =>
         escrows[j] = (EscrowFunding(job_posts[j].amount) + SumIn(j))
                        - SumOut(vault_out[j])
    /\ ~job_posts[j].initialized =>
         (escrows[j] = SumIn(j) /\ vault_out[j] = <<>>)

\* A job whose escrow has paid out, after which a further call was refused.
C5_Witness ==
  \E j \in JobKeys : Len(vault_out[j]) = 1 /\ outcome = "Err"

\* ----------------------------------------------------------------------- C6
\* C6: of the client's approve_application calls on a job's applications only
\* the first succeeds: on an open job the call succeeds, on a filled job every
\* such call fails JobAlreadyFilled; at most one application per job is ever
\* approved, and an application left unapproved at the fill stays unapproved.
C6_ExactlyOneApproval ==
  /\ [](\A j \in JobKeys :
          /\ Cardinality({a \in ApplicationsOf(j) : applications[a].approved}) <= 1
          /\ \A a \in ApplicationsOf(j) :
               /\ job_posts[j].is_filled =>
                    ApproveApplicationResult(ClientOf(j), j, a) = "JobAlreadyFilled"
               /\ (~job_posts[j].is_filled /\ ~job_posts[j].cancelled) =>
                    ApproveApplicationResult(ClientOf(j), j, a) = "Ok")
  /\ [][\A j \in JobKeys : \A a \in ApplicationsOf(j) :
          (job_posts[j].is_filled /\ ~applications[a].approved)
            => ~applications'[a].approved]_vars

\* A filled job with an approved and an unapproved application, and a call
\* that has just been refused.
C6_Witness ==
  \E j \in JobKeys :
    /\ job_posts[j].is_filled
    /\ \E a, b \in ApplicationsOf(j) :
         applications[a].approved /\ ~applications[b].approved
    /\ outcome = "Err"

\* ----------------------------------------------------------------------- C7
\* C7: a filled job has its freelancer set to the applicant of an approved
\* application of this job; cancelled and is_filled are never both true; and
\* is_filled, cancelled and a set freelancer never change again.
C7_JobPostInvariant ==
  /\ [](\A j \in JobKeys :
          /\ job_posts[j].is_filled =>
               /\ job_posts[j].freelancer # NoKey
               /\ \E a \in ApplicationsOf(j) :
                    /\ applications[a].approved
                    /\ applications[a].applicant = job_posts[j].freelancer
          /\ ~(job_posts[j].cancelled /\ job_posts[j].is_filled))
  /\ [][\A j \in JobKeys :
          /\ job_posts[j].is_filled => job_posts'[j].is_filled
          /\ job_posts[j].cancelled => job_posts'[j].cancelled
          /\ job_posts[j].freelancer # NoKey =>
               job_posts'[j].freelancer = job_posts[j].freelancer]_vars

\* One job filled and another cancelled.
C7_Witness ==
  \E j, k \in JobKeys :
    /\ job_posts[j].is_filled /\ job_posts[j].freelancer # NoKey
    /\ job_posts[k].cancelled

\* ----------------------------------------------------------------------- C8
\* C8: completed implies submitted, approved and not rejected; approved and
\* completed, once true, stay true.
C8_ApplicationInvariant ==
  /\ [](\A a \in AppKeys :
          applications[a].completed =>
            /\ applications[a].submitted
            /\ applications[a].approved
            /\ ~applications[a].rejected)
  /\ [][\A a \in AppKeys :
          /\ applications[a].approved => applications'[a].approved
          /\ applications[a].completed => applications'[a].completed]_vars

\* A completed application, after which a further call was refused.
C8_Witness ==
  \E a \in AppKeys : applications[a].completed /\ outcome = "Err"

\* ----------------------------------------------------------------------- C9
\* C9: once approve_submission has succeeded on an application, every further
\* approve_submission and reject_submission on it by the client fails
\* WorkAlreadyApproved, submit_work by the applicant fails WorkAlreadyApproved,
\* no caller and no arguments make any of the three succeed, the
\* application and its job never change again and nothing leaves the job's
\* escrow again.
C9_CompletedIsFinal ==
  /\ [](\A a \in AppKeys : applications[a].completed =>
          LET j == applications[a].job_post IN
          /\ \A payee \in Payees :
               ApproveSubmissionResult(ClientOf(j), j, a, j, payee) = "WorkAlreadyApproved"
          /\ RejectSubmissionResult(ClientOf(j), j, a) = "WorkAlreadyApproved"
          /\ SubmitWorkResult(applications[a].applicant, j, a, "s2", "n")
               = "WorkAlreadyApproved"
          /\ \A u \in Users, k \in JobKeys, e \in JobKeys, payee \in Payees :
               /\ ApproveSubmissionResult(u, k, a, e, payee) # "Ok"
               /\ RejectSubmissionResult(u, k, a) # "Ok"
               /\ \A p \in SubmitInputs : SubmitWorkResult(u, k, a, p[1], p[2]) # "Ok")
  /\ [][\A a \in AppKeys : applications[a].completed =>
          LET j == applications[a].job_post IN
          /\ applications'[a] = applications[a]
          /\ job_posts'[j] = job_posts[j]
          /\ escrows'[j] >= escrows[j]
          /\ vault_out'[j] = vault_out[j]]_vars

\* A completed application whose escrow has released, and a refused call.
C9_Witness ==
  \E a \in AppKeys :
    /\ applications[a].completed
    /\ Len(vault_out[applications[a].job_post]) = 1
    /\ outcome = "Err"

\* ---------------------------------------------------------------------- C10
\* C10: on a submitted, uncompleted application both approve_submission and
\* reject_submission by the client would succeed; after a reject (until the
\* next submit_work) both fail WorkNotCompleted; after an approve both fail
\* WorkAlreadyApproved; and a call that returns success always changes the
\* application (approve needs completed = false, reject needs submitted = true).
C10_ApproveRejectExclusive ==
  \A a \in AppKeys : Initialized(a) =>
    LET j == applications[a].job_post
        r == applications[a]
    IN
    /\ (r.submitted /\ ~r.completed) =>
         /\ \A payee \in Payees :
              ApproveSubmissionResult(ClientOf(j), j, a, j, payee) = "Ok"
         /\ RejectSubmissionResult(ClientOf(j), j, a) = "Ok"
    /\ (r.rejected /\ ~r.submitted) =>
         /\ \A payee \in Payees :
              ApproveSubmissionResult(ClientOf(j), j, a, j, payee) = "WorkNotCompleted"
         /\ RejectSubmissionResult(ClientOf(j), j, a) = "WorkNotCompleted"
    /\ r.completed =>
         /\ \A payee \in Payees :
              ApproveSubmissionResult(ClientOf(j), j, a, j, payee) = "WorkAlreadyApproved"
         /\ RejectSubmissionResult(ClientOf(j), j, a) = "WorkAlreadyApproved"
    /\ \A u \in Users, k \in JobKeys, e \in JobKeys, payee \in Payees :
         /\ ApproveSubmissionResult(u, k, a, e, payee) = "Ok"
              => (r.submitted /\ ~r.completed)
         /\ RejectSubmissionResult(u, k, a) = "Ok"
              => (r.submitted /\ ~r.completed)

\* A rejected application awaiting resubmission on which a call was refused.
C10_Witness ==
  \E a \in AppKeys :
    /\ applications[a].rejected
    /\ ~applications[a].submitted
    /\ outcome = "Err"

\* ---------------------------------------------------------------------- C11
\* C11: cancel_job by the client fails JobAlreadyFilled on a filled job and
\* JobAlreadyCancelled on a cancelled job, and no caller and no escrow
\* argument make it succeed there; so once a job is filled nothing that
\* leaves its escrow goes back to the client: no refund is ever made, and an
\* outbound transfer reaches the client only when the client is the job's
\* bound freelancer.
C11_CancelRefusedOnceFilledOrCancelled ==
  \A j \in JobKeys : job_posts[j].initialized =>
    /\ job_posts[j].is_filled =>
         /\ CancelJobResult(ClientOf(j), j, j) = "JobAlreadyFilled"
         /\ \A i \in 1..Len(vault_out[j]) :
              /\ vault_out[j][i][1] # "refund"
              /\ vault_out[j][i][2] = Wallet(ClientOf(j)) =>
                   job_posts[j].freelancer = ClientOf(j)
    /\ job_posts[j].cancelled =>
         CancelJobResult(ClientOf(j), j, j) = "JobAlreadyCancelled"
    /\ (job_posts[j].is_filled \/ job_posts[j].cancelled) =>
         \A u \in Users, e \in JobKeys : CancelJobResult(u, j, e) # "Ok"

\* ---------------------------------------------------------------------- C13
\* C13 as stated: approve_application, cancel_job, approve_submission and
\* reject_submission return Ok only to the job's client, submit_work only to
\* the application's applicant; called by anyone else on an existing job and
\* application they return Unauthorized; and approve_submission and
\* reject_submission return Ok only on the application of this job whose
\* applicant is the job's freelancer.
C13_Authorization ==
  \A u \in Users, j \in JobKeys, a \in AppKeys :
    LET exist == job_posts[j].initialized /\ Initialized(a)
        bound == /\ applications[a].job_post = j
                 /\ applications[a].applicant = job_posts[j].freelancer
    IN
    /\ ApproveApplicationResult(u, j, a) = "Ok" => u = ClientOf(j)
    /\ RejectSubmissionResult(u, j, a) = "Ok" => (u = ClientOf(j) /\ bound)
    /\ \A e \in JobKeys :
         /\ CancelJobResult(u, j, e) = "Ok" => u = ClientOf(j)
         /\ (job_posts[j].initialized /\ u # ClientOf(j)) =>
              CancelJobResult(u, j, e) = "Unauthorized"
         /\ \A payee \in Payees :
              /\ ApproveSubmissionResult(u, j, a, e, payee) = "Ok" =>
                   (u = ClientOf(j) /\ bound)
              /\ (exist /\ u # ClientOf(j)) =>
                   ApproveSubmissionResult(u, j, a, e, payee) = "Unauthorized"
    /\ (exist /\ u # ClientOf(j)) =>
         /\ ApproveApplicationResult(u, j, a) = "Unauthorized"
         /\ RejectSubmissionResult(u, j, a) = "Unauthorized"
    /\ \A p \in SubmitInputs :
         /\ SubmitWorkResult(u, j, a, p[1], p[2]) = "Ok" =>
              u = applications[a].applicant
         /\ (exist /\ u # applications[a].applicant) =>
              SubmitWorkResult(u, j, a, p[1], p[2]) = "Unauthorized"

\* C13 amended: the same, except that a call of approve_application,
\* approve_submission or reject_submission by someone other than the job's
\* client returns Unauthorized when the application passed is an application
\* to the job passed, and InvalidAccount when it is an application to
\* another job (whoever calls); cancel_job and submit_work return
\* Unauthorized to every other identity.  No such call returns Ok.
C13_AuthorizationByAccounts ==
  \A u \in Users, j \in JobKeys, a \in AppKeys :
    LET exist == job_posts[j].initialized /\ Initialized(a)
        belongs == exist /\ applications[a].job_post = j
        foreign == exist /\ applications[a].job_post # j
        bound == /\ applications[a].job_post = j
                 /\ applications[a].applicant = job_posts[j].freelancer
    IN
    /\ ApproveApplicationResult(u, j, a) = "Ok" => u = ClientOf(j)
    /\ RejectSubmissionResult(u, j, a) = "Ok" => (u = ClientOf(j) /\ bound)
    /\ \A e \in JobKeys :
         /\ CancelJobResult(u, j, e) = "Ok" => u = ClientOf(j)
         /\ (job_posts[j].initialized /\ u # ClientOf(j)) =>
              CancelJobResult(u, j, e) = "Unauthorized"
         /\ \A payee \in Payees :
              /\ ApproveSubmissionResult(u, j, a, e, payee) = "Ok" =>
                   (u = ClientOf(j) /\ bound)
              /\ (belongs /\ u # ClientOf(j)) =>
                   ApproveSubmissionResult(u, j, a, e, payee) = "Unauthorized"
              /\ foreign =>
                   ApproveSubmissionResult(u, j, a, e, payee) = "InvalidAccount"
    /\ (belongs /\ u # ClientOf(j)) =>
         /\ ApproveApplicationResult(u, j, a) = "Unauthorized"
         /\ RejectSubmissionResult(u, j, a) = "Unauthorized"
    /\ foreign =>
         /\ ApproveApplicationResult(u, j, a) = "InvalidAccount"
         /\ RejectSubmissionResult(u, j, a) = "InvalidAccount"
    /\ \A p \in SubmitInputs :
         /\ SubmitWorkResult(u, j, a, p[1], p[2]) = "Ok" =>
              u = applications[a].applicant
         /\ (exist /\ u # applications[a].applicant) =>
              SubmitWorkResult(u, j, a, p[1], p[2]) = "Unauthorized"

\* Two jobs posted by different clients, one with a submitted application:
\* passed with its own job the application meets the caller check, passed
\* with the other job it meets the application check, and a call has just
\* been refused.
C13_Witness ==
  /\ \A j \in JobKeys : job_posts[j].initialized
  /\ \E a \in AppKeys : applications[a].submitted /\ ~applications[a].completed
  /\ outcome = "Err"

\* ---------------------------------------------------------------------- C14
\* C14: apply_to_job returns Ok only on a job that is neither filled (else
\* JobAlreadyFilled) nor cancelled (else JobCancelled) and then creates the
\* Application with approved, submitted, completed and rejected all false; a
\* second apply for an existing (job, freelancer) pair fails with the
\* duplicate-account error whatever the job's state and the arguments; the
\* record of a pair always carries that pair's identity.
C14_ApplyOncePerPair ==
  /\ [](\A j \in JobKeys, f \in Users :
          LET a == <<j, f>> IN
          /\ Initialized(a) =>
               /\ applications[a].applicant = f
               /\ applications[a].job_post = j
               /\ \A p \in ApplyInputs :
                    ApplyToJobResult(f, j, p[1], p[2]) = "AccountAlreadyInUse"
          /\ \A p \in ApplyInputs :
               ApplyToJobResult(f, j, p[1], p[2]) = "Ok" =>
                 (~job_posts[j].is_filled /\ ~job_posts[j].cancelled)
          /\ (job_posts[j].initialized /\ ~Initialized(a)) =>
               ApplyToJobResult(f, j, "r", 0) =
                 IF job_posts[j].is_filled THEN "JobAlreadyFilled"
                 ELSE IF job_posts[j].cancelled THEN "JobCancelled"
                 ELSE "Ok")
  /\ [][\A a \in AppKeys :
          /\ (~Initialized(a) /\ applications'[a].initialized) =>
               /\ ~applications'[a].approved
               /\ ~applications'[a].submitted
               /\ ~applications'[a].completed
               /\ ~applications'[a].rejected
               /\ applications'[a].applicant = a[2]
               /\ applications'[a].job_post = a[1]
               /\ ~job_posts[a[1]].is_filled
               /\ ~job_posts[a[1]].cancelled
          /\ Initialized(a) => applications'[a].initialized]_vars

\* An application on a filled job and one on a cancelled job: a second apply
\* of either pair meets the duplicate-account error first.
C14_Witness ==
  /\ \E a \in AppKeys : Initialized(a) /\ job_posts[a[1]].is_filled
                          /\ ~applications[a].approved
  /\ \E b \in AppKeys : Initialized(b) /\ job_posts[b[1]].cancelled
  /\ outcome = "Err"

\* ---------------------------------------------------------------------- C15
\* C15: an escrow balance changes only in a successful initialize_job_post of
\* its own job (a credit) or a successful approve_submission or cancel_job of
\* its own job (a debit); every other step - apply_to_job,
\* approve_application, submit_work, reject_submission, get_user_stats and
\* every failed call - leaves every escrow balance and every party's balance
\* unchanged.
C15_VaultFrame ==
  [][/\ \A j \in AllJobKeys :
          escrows'[j] # escrows[j] =>
            \/ Posts(j) /\ escrows'[j] > escrows[j]
            \/ Cancels(j) /\ escrows'[j] < escrows[j]
            \/ /\ j \in JobKeys
               /\ \E a \in ApplicationsOf(j) : Completes(a)
               /\ escrows'[j] < escrows[j]
     /\ ( /\ \A j \in AllJobKeys : ~Posts(j) /\ ~Cancels(j)
          /\ \A a \in AppKeys : ~Completes(a) )
        => UNCHANGED <<escrows, lamports>>]_vars

C17_SubmitOverwrites ==
  /\ \A a \in AppKeys :
       (Initialized(a) /\ applications[a].approved /\ ~applications[a].completed) =>
         LET j == applications[a].job_post
             applicant == applications[a].applicant
         IN
         \A link \in {"s1", "s2"} :
           /\ SubmitWorkResult(applicant, j, a, link, "n") = "Ok"
           /\ ENABLED ( /\ submit_work(applicant, j, a, link, "n")
                        /\ outcome' = "Ok"
                        /\ applications' = [applications EXCEPT
                               ![a].submission_link = link,
                               ![a].narration = "n",
                               ![a].submitted = TRUE,
                               ![a].rejected = FALSE]
                        /\ UNCHANGED <<job_posts, user_stats, escrows, lamports>> )
  /\ \A u \in Users, j \in JobKeys, a \in AppKeys :
       LET unused == {"WorkAlreadySubmitted", "WorkAlreadyRejected"} IN
       /\ \A p \in SubmitInputs : SubmitWorkResult(u, j, a, p[1], p[2]) \notin unused
       /\ \A p \in ApplyInputs : ApplyToJobResult(u, j, p[1], p[2]) \notin unused
       /\ ApproveApplicationResult(u, j, a) \notin unused
       /\ RejectSubmissionResult(u, j, a) \notin unused
       /\ \A e \in JobKeys :
            /\ CancelJobResult(u, j, e) \notin unused
            /\ \A payee \in Payees : ApproveSubmissionResult(u, j, a, e, payee) \notin unused

\* A submission made after a rejection and not yet reviewed again, carrying
\* the second link: a further submit_work would replace it.
C17_Witness ==
  \E a \in AppKeys :
    /\ Resubmitted(a)
    /\ ~applications[a].rejected
    /\ applications[a].submission_link = "s2"

\* ---------------------------------------------------------------------- C18
\* C18: the escrow of a job that is neither cancelled nor completed holds at
\* least job.amount, so when every other guard of approve_submission passes
\* the balance guard passes too: no call of approve_submission returns
\* InsufficientEscrowBalance.
C18_EscrowCoversAmount ==
  /\ \A j \in JobKeys :
       ( /\ job_posts[j].initialized
         /\ ~job_posts[j].cancelled
         /\ \A a \in ApplicationsOf(j) : ~applications[a].completed )
       => escrows[j] >= job_posts[j].amount
  /\ \A u \in Users, j \in JobKeys, a \in AppKeys, e \in JobKeys, payee \in Payees :
       ApproveSubmissionResult(u, j, a, e, payee) # "InsufficientEscrowBalance"
  /\ \A a \in AppKeys :
       (Initialized(a) /\ applications[a].approved /\ applications[a].submitted
          /\ ~applications[a].completed) =>
         ApproveSubmissionResult(ClientOf(a[1]), a[1], a, a[1], Wallet(a[2])) = "Ok"

\* A submitted, unreviewed application on a filled job: every other guard of
\* approve_submission passes and the balance guard is the one deciding.
C18_Witness ==
  \E a \in AppKeys :
    /\ Initialized(a)
    /\ applications[a].submitted
    /\ ~applications[a].completed
    /\ job_posts[a[1]].is_filled
    /\ escrows[a[1]] >= job_posts[a[1]].amount
    /\ ApproveSubmissionResult(ClientOf(a[1]), a[1], a, a[1], Wallet(a[2])) = "Ok"

\* ---------------------------------------------------------------------- C19
\* C19: lamports are conserved.  The total over every wallet and every
\* escrow is the same in every reachable state, hence before and after every
\* call, successful or failed (account rent aside).
TotalLamports == SumOver(lamports, Users) + SumOver(escrows, AllJobKeys)

C19_LamportsConserved ==
  /\ TotalLamports = Cardinality(Users) * InitLamports
  /\ \A u \in Users : lamports[u] >= 0
  /\ \A j \in AllJobKeys : escrows[j] >= 0

\* Funds have moved in, and out again both ways: one job was refunded and
\* another released.
C19_Witness ==
  \E j \in JobKeys, k \in JobKeys :
    /\ Len(vault_out[j]) = 1 /\ vault_out[j][1][1] = "refund"
    /\ Len(vault_out[k]) = 1 /\ vault_out[k][1][1] = "release"

\* ---------------------------------------------------------------------- C20
\* C20: approve_application never returns ApplicationAlreadyApproved.  An
\* approved application always belongs to a filled job, and the
\* account-relationship check and the JobAlreadyFilled guard come before the
\* approved guard, so the client approving an approved application again
\* gets JobAlreadyFilled.
C20_AlreadyApprovedUnreachable ==
  /\ \A u \in Users, j \in JobKeys, a \in AppKeys :
       ApproveApplicationResult(u, j, a) # "ApplicationAlreadyApproved"
  /\ \A a \in AppKeys :
       (Initialized(a) /\ applications[a].approved) =>
         LET j == applications[a].job_post IN
         /\ job_posts[j].initialized
         /\ job_posts[j].is_filled
         /\ ApproveApplicationResult(ClientOf(j), j, a) = "JobAlreadyFilled"
         /\ \A k \in JobKeys \ {j} :
              job_posts[k].initialized =>
                ApproveApplicationResult(ClientOf(k), k, a) = "InvalidAccount"

\* An approved application, with both jobs posted so that it can be offered
\* to its own job and to the other one.
C20_Witness ==
  /\ \E a \in AppKeys : Initialized(a) /\ applications[a].approved
  /\ \A j \in JobKeys : job_posts[j].initialized

====
